---- MODULE Spec2Model ----
(***************************************************************************)
(* certbot-regru (certbot_regru_freebsd/dns.py): the Reg.ru DNS-01         *)
(* authenticator.  The model covers Authenticator._validate_credentials,  *)
(* _perform/_cleanup, _RegRuClient (add_txt_record, del_txt_record,        *)
(* _create_params) and _HttpClient.send, together with the environment     *)
(* they run against: the filesystem holding the client certificate and    *)
(* key, the HTTP exchange, and the provider's zone.                        *)
(*                                                                         *)
(* Python values are represented as follows.                               *)
(*   - DNS names are sequences of one-character strings, so that           *)
(*     str.split('.') and '.'.join are computed character by character.    *)
(*   - other str values (credentials, validation values) are TLA+ strings; *)
(*     None is the distinguished string NoneVal.                           *)
(*   - a dict is the sequence of its <<key, value>> items in insertion     *)
(*     order; values are tagged records [t |-> type, v |-> value].         *)
(***************************************************************************)
EXTENDS Integers, Sequences, FiniteSets, Bags, TLC

VARIABLES credentials, fs, validated, runs, zone, lastCall, probe

vars == <<credentials, fs, validated, runs, zone, lastCall, probe>>

\* ------------------------------------------------------------ bounds
\* Longest DNS name (in characters) given to the parameter builder alone.
MaxLen == 5
\* Number of challenge runs (perform followed by cleanup) that interleave.
NumRuns == 2

\* ------------------------------------------------------- Python values
NoneVal == "<None>"

\* Python truthiness of an optional str: None and '' are falsy.
Truthy(s) == s # NoneVal /\ s # ""

Str(s)  == [t |-> "str", v |-> s]
Name(s) == [t |-> "name", v |-> s]
List(s) == [t |-> "list", v |-> s]
Dict(s) == [t |-> "dict", v |-> s]

\* dict operations on the item sequence
DictKeys(d) == {d[i][1] : i \in 1..Len(d)}
DictHas(d, k) == k \in DictKeys(d)
DictGet(d, k) == d[CHOOSE i \in 1..Len(d) : d[i][1] = k][2]
\* d[k] = v: an existing key keeps its position, a new key is appended
DictSet(d, k, v) ==
    IF DictHas(d, k)
    THEN [i \in 1..Len(d) |-> IF d[i][1] = k THEN <<k, v>> ELSE d[i]]
    ELSE Append(d, <<k, v>>)

\* ------------------------------------------------------------ strings
Alphabet == {"a", "b", "."}

RECURSIVE StringsOfLen(_)
StringsOfLen(n) ==
    IF n = 0 THEN {<<>>}
    ELSE {Append(s, c) : s \in StringsOfLen(n - 1), c \in Alphabet}

Strings == UNION {StringsOfLen(n) : n \in 0..MaxLen}

\* str.split('.'): the pieces between the separators, empty pieces kept
Split(s) ==
    LET F[i \in 0..Len(s)] ==
            IF i = 0 THEN << <<>> >>
            ELSE IF s[i] = "."
                 THEN Append(F[i - 1], <<>>)
                 ELSE [F[i - 1] EXCEPT ![Len(F[i - 1])] = Append(@, s[i])]
    IN  F[Len(s)]

\* '.'.join(pieces)
RECURSIVE Join(_)
Join(pieces) ==
    IF pieces = <<>> THEN <<>>
    ELSE IF Len(pieces) = 1 THEN pieces[1]
    ELSE pieces[1] \o <<".">> \o Join(Tail(pieces))

\* pieces[:-k]: everything but the last k items (empty when there are at most k)
AllButLast(pieces, k) ==
    IF Len(pieces) <= k THEN <<>> ELSE SubSeq(pieces, 1, Len(pieces) - k)

\* pieces[-k:]: the last k items (all of them when there are at most k)
LastItems(pieces, k) ==
    IF Len(pieces) <= k THEN pieces
    ELSE SubSeq(pieces, Len(pieces) - k + 1, Len(pieces))

\* ------------------------------------------------------------- json
\* json.dumps of a dict: the JSON text, kept as its member list in the
\* dict's order; a str member becomes a JSON string, a list a JSON array,
\* a dict a JSON object.
RECURSIVE JsonOf(_)
JsonOf(x) ==
    CASE x.t = "dict" ->
            [t |-> "object",
             v |-> [i \in 1..Len(x.v) |-> <<x.v[i][1], JsonOf(x.v[i][2])>>]]
      [] x.t = "list" ->
            [t |-> "array", v |-> [i \in 1..Len(x.v) |-> JsonOf(x.v[i])]]
      [] OTHER -> [t |-> "string", v |-> x.v]

JsonDumps(d) == [t |-> "json_text", v |-> JsonOf(Dict(d))]

\* ------------------------------------------------------- _RegRuClient
\* _RegRuClient.__init__
RegRuClient(username, password, cert, key) ==
    [cert |-> cert, key |-> key, username |-> username, password |-> password,
     options |-> << <<"input_format", Str("json")>> >>]

\* A slip in _create_params: slicing one label instead of two.
CreateParamsOneLabel(self, domain, input_data) ==
    LET pieces == Split(domain)
        d1 == DictSet(input_data, "subdomain", Name(Join(AllButLast(pieces, 1))))
        d2 == DictSet(d1, "domains",
                  List(<< Dict(<< <<"dname", Name(Join(LastItems(pieces, 1)))>> >>) >>))
        d3 == DictSet(d2, "output_content_type", Str("json"))
        d4 == DictSet(d3, "username", Str(self.username))
        d5 == DictSet(d4, "password", Str(self.password))
        data == DictSet(self.options, "input_data", JsonDumps(d5))
    IN  [ret |-> data, self |-> self, input_data |-> d5]

\* A slip in _create_params: updating self.options in place (no copy()).
CreateParamsNoCopy(self, domain, input_data) ==
    LET pieces == Split(domain)
        d1 == DictSet(input_data, "subdomain", Name(Join(AllButLast(pieces, 2))))
        d2 == DictSet(d1, "domains",
                  List(<< Dict(<< <<"dname", Name(Join(LastItems(pieces, 2)))>> >>) >>))
        d3 == DictSet(d2, "output_content_type", Str("json"))
        d4 == DictSet(d3, "username", Str(self.username))
        d5 == DictSet(d4, "password", Str(self.password))
        data == DictSet(self.options, "input_data", JsonDumps(d5))
    IN  [ret |-> data, self |-> [self EXCEPT !.options = data], input_data |-> d5]

\* _RegRuClient._create_params: the returned form parameters, with the
\* client and the caller's input_data dict as the call leaves them.
CreateParams(self, domain, input_data) ==
    LET pieces == Split(domain)
        d1 == DictSet(input_data, "subdomain", Name(Join(AllButLast(pieces, 2))))
        d2 == DictSet(d1, "domains",
                  List(<< Dict(<< <<"dname", Name(Join(LastItems(pieces, 2)))>> >>) >>))
        d3 == DictSet(d2, "output_content_type", Str("json"))
        d4 == DictSet(d3, "username", Str(self.username))
        d5 == DictSet(d4, "password", Str(self.password))
        \* data = self.options.copy(); data.update({'input_data': ...})
        data == DictSet(self.options, "input_data", JsonDumps(d5))
    IN  [ret |-> data, self |-> self, input_data |-> d5]

\* ------------------------------------------------------- environment
AddUrl    == "https://api.reg.ru/api/regru2/zone/add_txt"
RemoveUrl == "https://api.reg.ru/api/regru2/zone/remove_record"

\* JSON documents a server may answer with
JsonNull == [t |-> "null", v |-> <<>>]
JsonObject(members) == [t |-> "object", v |-> members]
JsonString(s) == [t |-> "string", v |-> s]
JsonArray(items) == [t |-> "array", v |-> items]

JsonBodies ==
    { JsonObject(<< <<"result", JsonString("success")>> >>),
      JsonObject(<< <<"result", JsonString("error")>>,
                    <<"error_code", JsonString("NO_AUTH")>> >>),
      JsonObject(<<>>),
      JsonArray(<<>>),
      JsonArray(<< JsonString("result") >>),
      JsonNull }

\* response bodies: JSON text, text that is not JSON, and the empty body
Bodies ==
    {[t |-> "json", v |-> j] : j \in JsonBodies}
        \cup {[t |-> "text", v |-> "<html>"], [t |-> "text", v |-> ""]}

IsSuccessBody(b) ==
    b = [t |-> "json", v |-> JsonObject(<< <<"result", JsonString("success")>> >>)]

\* One HTTP exchange as the environment decides it: no response at all
\* (connection refused, timeout), or a status and a body.  applied says
\* whether the provider carried the request out: it did when it answers
\* success, did not when it answers anything else, and either when the
\* answer never arrives.
Exchanges ==
    {[kind |-> "no_response", applied |-> a] : a \in BOOLEAN}
        \cup {[kind |-> "http", status |-> 200, body |-> b, applied |-> IsSuccessBody(b)] :
                  b \in Bodies}
        \cup {[kind |-> "http", status |-> 500, body |-> b, applied |-> FALSE] :
                  b \in {[t |-> "text", v |-> "<html>"],
                         [t |-> "json", v |-> JsonObject(<<>>)]}}

\* ------------------------------------------------------------ requests
NoResponse == [present |-> FALSE]
HttpResponse(status, body) == [present |-> TRUE, status_code |-> status, text |-> body]

\* an exception object; request_exception: an instance of
\* requests.exceptions.RequestException; response: its .response attribute
Exception(type, isRequestException, response, message) ==
    [type |-> type, request_exception |-> isRequestException,
     response |-> response, message |-> message]

Raise(exc)   == [kind |-> "raise", exc |-> exc]
Return(value) == [kind |-> "return", value |-> value]
PyNone == [t |-> "NoneType", v |-> <<>>]

\* json.loads result for a JSON document: object -> dict, array -> list,
\* string -> str, null -> None
RECURSIVE PyOf(_)
PyOf(j) ==
    CASE j.t = "object" ->
            Dict([i \in 1..Len(j.v) |-> <<j.v[i][1], PyOf(j.v[i][2])>>])
      [] j.t = "array" -> List([i \in 1..Len(j.v) |-> PyOf(j.v[i])])
      [] j.t = "string" -> Str(j.v)
      [] OTHER -> PyNone

\* requests.Response.json() (requests >= 2.32.4, setup.py): a body that
\* is not JSON raises requests.exceptions.JSONDecodeError, a
\* RequestException that carries no response
ResponseJson(body) ==
    IF body.t = "json" THEN Return(PyOf(body.v))
    ELSE Raise(Exception("JSONDecodeError", TRUE, NoResponse, <<>>))

\* requests.Response.raise_for_status(): HTTPError, with the response
\* attached, for a 4xx or 5xx status
RaiseForStatus(status, body) ==
    IF 400 <= status /\ status < 600
    THEN Raise(Exception("HTTPError", TRUE, HttpResponse(status, body), <<>>))
    ELSE Return(PyNone)

NoClientCert == <<>>

\* A slip in send: the key file's existence is not checked.
SendKeyUnchecked(url, data, cert, key, files, exchange) ==
    LET withCert == Truthy(cert) /\ Truthy(key) /\ cert \in files
        post == [url |-> url, data |-> data,
                 cert |-> IF withCert THEN <<cert, key>> ELSE NoClientCert]
        outcome ==
            IF exchange.kind = "no_response"
            THEN Raise(Exception("ConnectionError", TRUE, NoResponse, <<>>))
            ELSE IF RaiseForStatus(exchange.status, exchange.body).kind = "raise"
                 THEN RaiseForStatus(exchange.status, exchange.body)
                 ELSE ResponseJson(exchange.body)
    IN  [posts |-> <<post>>, outcome |-> outcome]

\* A slip in send: the POST is repeated when no response arrives.
SendRetry(url, data, cert, key, files, exchange) ==
    LET withCert == Truthy(cert) /\ Truthy(key) /\ cert \in files /\ key \in files
        post == [url |-> url, data |-> data,
                 cert |-> IF withCert THEN <<cert, key>> ELSE NoClientCert]
        outcome ==
            IF exchange.kind = "no_response"
            THEN Raise(Exception("ConnectionError", TRUE, NoResponse, <<>>))
            ELSE IF RaiseForStatus(exchange.status, exchange.body).kind = "raise"
                 THEN RaiseForStatus(exchange.status, exchange.body)
                 ELSE ResponseJson(exchange.body)
    IN  [posts |-> IF exchange.kind = "no_response" THEN <<post, post>> ELSE <<post>>,
         outcome |-> outcome]

\* _HttpClient.send against filesystem `files` and the environment's
\* `exchange`: the POSTs issued and how the call ends.
Send(url, data, cert, key, files, exchange) ==
    LET withCert == Truthy(cert) /\ Truthy(key) /\ cert \in files /\ key \in files
        post == [url |-> url, data |-> data,
                 cert |-> IF withCert THEN <<cert, key>> ELSE NoClientCert]
        outcome ==
            \* requests.post raises when no response arrives
            IF exchange.kind = "no_response"
            THEN Raise(Exception("ConnectionError", TRUE, NoResponse, <<>>))
            ELSE IF RaiseForStatus(exchange.status, exchange.body).kind = "raise"
                 THEN RaiseForStatus(exchange.status, exchange.body)
                 ELSE ResponseJson(exchange.body)
    IN  [posts |-> <<post>>, outcome |-> outcome]

\* ------------------------------------------- add_txt_record, del_txt_record
ApiErrorTemplate == "Error communicating with the Reg.ru API: {0}"

PluginError(message) == Exception("PluginError", FALSE, NoResponse, message)

\* Evaluating e.response.status_code and e.response.text in an except
\* clause: AttributeError when e.response is None.
ResponseAttrs(e) ==
    IF e.response.present
    THEN Return([status_code |-> e.response.status_code, text |-> e.response.text])
    ELSE Raise(Exception("AttributeError", FALSE, NoResponse, <<>>))

\* 'result' not in response or response['result'] != 'success', on the
\* Python value response.json() returned: "failure" when the condition is
\* true, "success" when it is false, "TypeError" when evaluating it raises
\* (None supports no membership test, a list no str index).
EnvelopeCheck(response) ==
    CASE response.t = "dict" ->
            IF ~DictHas(response.v, "result") THEN "failure"
            ELSE IF DictGet(response.v, "result") # Str("success") THEN "failure"
            ELSE "success"
      [] response.t = "list" ->
            IF \A i \in 1..Len(response.v) : response.v[i] # Str("result")
            THEN "failure"
            ELSE "TypeError"
      [] OTHER -> "TypeError"

TypeError == Exception("TypeError", FALSE, NoResponse, <<>>)

\* _RegRuClient.add_txt_record: the POSTs issued, the form parameters
\* built, the client as the call leaves it, how send ended, the log levels
\* written, and how the call ends.
AddTxtRecord(self, record_name, record_content, files, exchange) ==
    LET p == CreateParams(self, record_name, << <<"text", Str(record_content)>> >>)
        s == Send(AddUrl, p.ret, p.self.cert, p.self.key, files, exchange)
        with(log, outcome) ==
            [posts |-> s.posts, data |-> p.ret, self |-> p.self, sent |-> s.outcome,
             log |-> log, outcome |-> outcome]
    IN  IF s.outcome.kind = "raise"
        THEN IF s.outcome.exc.request_exception
             THEN \* except requests.exceptions.RequestException as e
                  IF ResponseAttrs(s.outcome.exc).kind = "raise"
                  THEN with(<<"debug">>, ResponseAttrs(s.outcome.exc))
                  ELSE with(<<"debug", "error">>,
                            Raise(PluginError(<<ApiErrorTemplate,
                                [t |-> "int",
                                 v |-> ResponseAttrs(s.outcome.exc).value.status_code]>>)))
             ELSE with(<<"debug">>, s.outcome)
        ELSE CASE EnvelopeCheck(s.outcome.value) = "TypeError" ->
                    with(<<"debug">>, Raise(TypeError))
               [] EnvelopeCheck(s.outcome.value) = "failure" ->
                    with(<<"debug", "error">>,
                         Raise(PluginError(<<ApiErrorTemplate, s.outcome.value>>)))
               [] OTHER -> with(<<"debug", "debug">>, Return(PyNone))

\* A slip in del_txt_record: the record content left out of the request.
DelInputDataNoContent(record_content) ==
    << <<"record_type", Str("TXT")>> >>

\* The input_data dict literal of del_txt_record.
DelInputData(record_content) ==
    << <<"record_type", Str("TXT")>>, <<"content", Str(record_content)>> >>

\* _RegRuClient.del_txt_record, as add_txt_record above.
DelTxtRecord(self, record_name, record_content, files, exchange) ==
    LET p == CreateParams(self, record_name, DelInputData(record_content))
        s == Send(RemoveUrl, p.ret, p.self.cert, p.self.key, files, exchange)
        with(log, outcome) ==
            [posts |-> s.posts, data |-> p.ret, self |-> p.self, sent |-> s.outcome,
             log |-> log, outcome |-> outcome]
    IN  IF s.outcome.kind = "raise"
        THEN IF s.outcome.exc.request_exception
             THEN \* except requests.exceptions.RequestException as e
                  IF ResponseAttrs(s.outcome.exc).kind = "raise"
                  THEN with(<<"debug">>, ResponseAttrs(s.outcome.exc))
                  ELSE with(<<"debug", "warning">>, Return(PyNone))
             ELSE with(<<"debug">>, s.outcome)
        ELSE CASE EnvelopeCheck(s.outcome.value) = "TypeError" ->
                    with(<<"debug">>, Raise(TypeError))
               [] EnvelopeCheck(s.outcome.value) = "failure" ->
                    with(<<"debug", "warning">>, Return(PyNone))
               [] OTHER -> with(<<"debug", "debug">>, Return(PyNone))

\* ------------------------------------------------------- Authenticator
CredentialsFile == "/usr/local/etc/letsencrypt/regru.ini"

\* str.format with `fields` positional replacement fields and `args`
\* arguments: IndexError when a field has no argument.
PyFormat(template, fields, args) ==
    IF Len(args) < fields
    THEN Raise(Exception("IndexError", FALSE, NoResponse, <<>>))
    ELSE Return(<<template, args>>)

\* raise errors.PluginError(<the formatted message>)
RaisePluginError(formatted) ==
    IF formatted.kind = "raise" THEN formatted
    ELSE Raise(PluginError(formatted.value))

\* Authenticator._validate_credentials against filesystem `files`
ValidateCredentials(conf, files) ==
    IF ~Truthy(conf.password) \/ ~Truthy(conf.username)
    THEN RaisePluginError(
            PyFormat("{}: Either password and username are required. (see {})",
                     2, <<conf.filename>>))
    ELSE IF Truthy(conf.cert) /\ Truthy(conf.key)
            /\ (conf.cert \notin files \/ conf.key \notin files)
    THEN RaisePluginError(
            PyFormat("{}: Either cert and key not found. (see {})",
                     2, <<conf.filename>>))
    ELSE Return(PyNone)

\* Authenticator._get_regru_client
GetRegRuClient(conf) ==
    RegRuClient(conf.username, conf.password, conf.cert, conf.key)

\* ------------------------------------------------------------ provider
\* The provider named by the claims: it stores TXT records under
\* (subdomain, dname), and remove_record deletes the TXT records of that
\* name whose content equals the request's content; a request that names
\* no content matches every content.
JsonHas(obj, k) == \E i \in 1..Len(obj.v) : obj.v[i][1] = k
JsonMember(obj, k) == obj.v[CHOOSE i \in 1..Len(obj.v) : obj.v[i][1] = k][2]

RequestOf(post) == DictGet(post.data, "input_data").v

RequestSubdomain(req) == JsonMember(req, "subdomain").v
RequestDname(req) == JsonMember(JsonMember(req, "domains").v[1], "dname").v

ProviderApply(z, post) ==
    LET req == RequestOf(post)
    IN  IF post.url = AddUrl
        THEN z \cup {[subdomain |-> RequestSubdomain(req),
                      dname |-> RequestDname(req),
                      content |-> JsonMember(req, "text").v]}
        ELSE z \ {rec \in z :
                    /\ JsonMember(req, "record_type").v = "TXT"
                    /\ rec.subdomain = RequestSubdomain(req)
                    /\ rec.dname = RequestDname(req)
                    /\ (JsonHas(req, "content")
                            => rec.content = JsonMember(req, "content").v)}

\* ---------------------------------------------------------------- state
\* the filesystem, as far as the program looks at it: the paths the
\* credentials name as cert and key
Paths(conf) == {p \in {conf.cert, conf.key} : Truthy(p)}

\* what credentials.conf(...) yields: None for a missing option, '' for an
\* empty one
Credentials ==
    [username : {NoneVal, "", "user"},
     password : {NoneVal, "", "pw"},
     cert     : {NoneVal, "", "/c"},
     key      : {NoneVal, "/k"},
     filename : {CredentialsFile}]

\* record names and validation values the orchestrator passes
RunNames == { <<"a", ".", "b", ".", "c">> }
Values == {"v1", "v2"}

NotRun == [kind |-> "not_run"]
NoCall == [op |-> "none"]
NoProbe == [domain |-> <<>>, done |-> FALSE]
\* A challenge run that has been performed, or performed and cleaned up;
\* runs is the bag of them (the orchestrator's runs carry no identity
\* here), and a run not yet in it has not started.
Performed(name, value) == [pc |-> "performed", name |-> name, value |-> value]
CleanedUp(run) == [run EXCEPT !.pc = "done"]

Init ==
    /\ credentials \in Credentials
    /\ fs \in SUBSET Paths(credentials)
    /\ validated = NotRun
    /\ runs = EmptyBag
    /\ zone = {}
    /\ lastCall = NoCall
    /\ probe = NoProbe

\* The filesystem changes under the program: a certificate or key file is
\* created or removed.
FsChange(path) ==
    /\ fs' = IF path \in fs THEN fs \ {path} ELSE fs \cup {path}
    /\ UNCHANGED <<credentials, validated, runs, zone, lastCall, probe>>

\* Authenticator._setup_credentials: the validator runs once, before any
\* challenge is performed.
SetupCredentials ==
    /\ validated = NotRun
    /\ validated' = ValidateCredentials(credentials, fs)
    /\ UNCHANGED <<credentials, fs, runs, zone, lastCall, probe>>

CallRecord(op, name, value, call, z) ==
    [op |-> op, name |-> name, value |-> value,
     posts |-> call.posts, data |-> call.data, self |-> call.self,
     sent |-> call.sent,
     log |-> call.log, outcome |-> call.outcome, removed |-> zone \ z]

\* the zone after the exchanges of a call: the provider carries out each
\* POST it is said to have applied
ZoneAfter(posts, exchange) ==
    IF exchange.applied /\ posts # <<>> THEN ProviderApply(zone, posts[1]) ELSE zone

\* Authenticator._perform, for a run that has not started
Perform(name, value, exchange) ==
    /\ validated.kind = "return"
    /\ BagCardinality(runs) < NumRuns
    /\ LET call == AddTxtRecord(GetRegRuClient(credentials), name, value, fs, exchange)
           z == ZoneAfter(call.posts, exchange)
       IN  /\ zone' = z
           /\ lastCall' = CallRecord("add", name, value, call, z)
    /\ runs' = runs (+) SetToBag({Performed(name, value)})
    /\ UNCHANGED <<credentials, fs, validated, probe>>

\* Authenticator._cleanup, with the name and value of the run's _perform
Cleanup(run, exchange) ==
    /\ BagIn(run, runs)
    /\ run.pc = "performed"
    /\ LET call == DelTxtRecord(GetRegRuClient(credentials), run.name,
                                run.value, fs, exchange)
           z == ZoneAfter(call.posts, exchange)
       IN  /\ zone' = z
           /\ lastCall' = CallRecord("del", run.name, run.value, call, z)
    /\ runs' = (runs (-) SetToBag({run})) (+) SetToBag({CleanedUp(run)})
    /\ UNCHANGED <<credentials, fs, validated, probe>>

Next ==
    \/ \E path \in Paths(credentials) : FsChange(path)
    \/ SetupCredentials
    \/ \E name \in RunNames, value \in Values, exchange \in Exchanges :
            Perform(name, value, exchange)
    \/ \E run \in BagToSet(runs), exchange \in Exchanges : Cleanup(run, exchange)

Spec == Init /\ [][Next]_vars

\* ------------------------------------------- the parameter builder alone
\* _create_params applied to every name of at most MaxLen characters, for
\* both kinds of request.
ParamsInit ==
    /\ credentials \in {c \in Credentials : Truthy(c.username) /\ Truthy(c.password)
                                            /\ c.cert = NoneVal /\ c.key = NoneVal}
    /\ fs = {}
    /\ validated = NotRun
    /\ runs = EmptyBag
    /\ zone = {}
    /\ lastCall = NoCall
    /\ probe \in {[domain |-> s, done |-> FALSE] : s \in Strings}

BuildParams(op, value) ==
    /\ ~probe.done
    /\ probe' = [domain |-> probe.domain, done |-> TRUE, op |-> op, value |-> value,
                 out |-> CreateParams(GetRegRuClient(credentials), probe.domain,
                            IF op = "add" THEN << <<"text", Str(value)>> >>
                            ELSE DelInputData(value))]
    /\ UNCHANGED <<credentials, fs, validated, runs, zone, lastCall>>

ParamsNext == \E op \in {"add", "del"}, value \in Values : BuildParams(op, value)

SpecParams == ParamsInit /\ [][ParamsNext]_vars

\* ---------------------------------------------------------- properties
Called(op) == lastCall.op = op
Raised(type) == lastCall.outcome.kind = "raise" /\ lastCall.outcome.exc.type = type

CountDots(s) == Cardinality({i \in 1..Len(s) : s[i] = "."})

\* a DNS name: no empty label, but for the root label a trailing
\* separator stands for
IsDnsName(s) ==
    /\ s # <<>>
    /\ s[1] # "."
    /\ \A i \in 1..(Len(s) - 1) : ~(s[i] = "." /\ s[i + 1] = ".")

\* the JSON object a call's form parameters carry in input_data
PayloadOf(data) == DictGet(data, "input_data").v
MemberNames(obj) == {obj.v[i][1] : i \in 1..Len(obj.v)}

\* C1: del_txt_record returns normally, whatever the HTTP exchange did.
C1_RemoveNeverRaises ==
    Called("del") => lastCall.outcome.kind = "return"

\* C2: when send fails during add_txt_record, the caller gets PluginError
\* and no other exception.
C2_AddTransportFailureIsPluginError ==
    (Called("add") /\ lastCall.sent.kind = "raise") => Raised("PluginError")

\* a response that has a 'result' member equal to 'success'
HasSuccessResult(response) ==
    /\ response.t = "dict"
    /\ \E i \in 1..Len(response.v) : response.v[i] = <<"result", Str("success")>>

\* C3: when send returns a parsed JSON response, add_txt_record returns
\* normally exactly when the response has a 'result' member equal to
\* 'success', and otherwise raises PluginError with the response in its
\* message.
C3_AddSucceedsIffResultSuccess ==
    (Called("add") /\ lastCall.sent.kind = "return") =>
        IF HasSuccessResult(lastCall.sent.value)
        THEN lastCall.outcome.kind = "return"
        ELSE /\ Raised("PluginError")
             /\ lastCall.outcome.exc.message = <<ApiErrorTemplate, lastCall.sent.value>>

\* C4: with an empty or missing username or password, validation raises
\* PluginError with a message that names the credentials file.
C4_MissingLoginIsPluginError ==
    (validated # NotRun
        /\ (credentials.username \in {NoneVal, ""} \/ credentials.password \in {NoneVal, ""}))
    => /\ validated.kind = "raise"
       /\ validated.exc.type = "PluginError"
       /\ \E i \in 1..Len(validated.exc.message[2]) :
              validated.exc.message[2][i] = credentials.filename

\* C5: with username and password given, validation raises PluginError
\* when exactly one of cert/key is given or when both are given and a
\* file is missing, and returns otherwise.
C5_CertKeyPairValidated ==
    [][(validated = NotRun /\ validated' # NotRun
            /\ credentials.username \notin {NoneVal, ""}
            /\ credentials.password \notin {NoneVal, ""})
        => LET hasCert == credentials.cert \notin {NoneVal, ""}
               hasKey == credentials.key \notin {NoneVal, ""}
               mustFail == \/ hasCert # hasKey
                           \/ hasCert /\ hasKey
                                /\ (credentials.cert \notin fs \/ credentials.key \notin fs)
           IN  IF mustFail
               THEN validated'.kind = "raise" /\ validated'.exc.type = "PluginError"
               ELSE validated'.kind = "return"]_vars

\* what _create_params left in the caller's input_data
ProbeSubdomain == DictGet(probe.out.input_data, "subdomain").v
ProbeDomains == DictGet(probe.out.input_data, "domains").v
ProbeDname == DictGet(ProbeDomains[1].v, "dname").v

\* C6: for a name of n >= 2 labels, subdomain is the first n-2 labels
\* joined by '.', ('' when n = 2), domains is a one-element list whose
\* dname is the last two labels joined by '.', and subdomain and dname
\* joined by '.' (without the separator when subdomain is '') give the
\* name back.
C6_SubdomainAndDname ==
    (probe.done /\ IsDnsName(probe.domain) /\ CountDots(probe.domain) >= 1) =>
        /\ Len(ProbeDomains) = 1
        /\ DictKeys(ProbeDomains[1].v) = {"dname"}
        /\ CountDots(ProbeDname) = 1
        /\ CountDots(probe.domain) = 1 => ProbeSubdomain = <<>>
        /\ CountDots(probe.domain) >= 2 =>
                CountDots(ProbeSubdomain) = CountDots(probe.domain) - 2
        /\ probe.domain = IF ProbeSubdomain = <<>> THEN ProbeDname
                          ELSE ProbeSubdomain \o <<".">> \o ProbeDname

C6_Witness ==
    /\ probe.done
    /\ IsDnsName(probe.domain)
    /\ CountDots(probe.domain) = 2
    /\ ProbeSubdomain = <<"a">>
    /\ ProbeDname = <<"b", ".", "a">>

\* C7: the POST carries the client certificate exactly when cert and key
\* are both given and both files exist when the request is sent; in every
\* other case the POST is made without one.
C7_ClientCertIffBothExist ==
    [][runs' # runs =>
        LET both == /\ credentials.cert \notin {NoneVal, ""}
                    /\ credentials.key \notin {NoneVal, ""}
                    /\ credentials.cert \in fs
                    /\ credentials.key \in fs
        IN  /\ Len(lastCall'.posts) >= 1
            /\ \A i \in 1..Len(lastCall'.posts) :
                 lastCall'.posts[i].cert =
                    IF both THEN <<credentials.cert, credentials.key>> ELSE <<>>]_vars

\* both paths configured and validated, a file gone by the time of the
\* request: the POST went out without the certificate
C7_Witness ==
    /\ lastCall.op # "none"
    /\ credentials.cert = "/c" /\ credentials.key = "/k"
    /\ lastCall.posts[1].cert = <<>>
    /\ lastCall.posts[1].url = "https://api.reg.ru/api/regru2/zone/add_txt"

\* C8: each add_txt_record issues exactly one POST, to zone/add_txt, and
\* each del_txt_record exactly one, to zone/remove_record, however the
\* exchange ends.
C8_ExactlyOnePost ==
    /\ Called("add") =>
          /\ Len(lastCall.posts) = 1
          /\ lastCall.posts[1].url = "https://api.reg.ru/api/regru2/zone/add_txt"
    /\ Called("del") =>
          /\ Len(lastCall.posts) = 1
          /\ lastCall.posts[1].url = "https://api.reg.ru/api/regru2/zone/remove_record"

\* a call that ended in an exception after no response arrived
C8_Witness ==
    /\ Called("del")
    /\ lastCall.sent.kind = "raise"
    /\ ~lastCall.sent.exc.response.present
    /\ lastCall.outcome.kind = "raise"

\* C9: a remove request carries the record's subdomain and dname, its
\* content (the caller's validation value) and record_type TXT; so the
\* provider removes nothing but records of that name with that content,
\* and a run's cleanup leaves the record of a run with another value.
C9_RemoveMatchesNameAndContent ==
    Called("del") =>
        LET req == PayloadOf(lastCall.posts[1].data)
        IN  /\ {"record_type", "content", "subdomain", "domains"} \subseteq MemberNames(req)
            /\ JsonMember(req, "record_type") = JsonString("TXT")
            /\ JsonMember(req, "content") = JsonString(lastCall.value)
            /\ CountDots(RequestDname(req)) = 1
            /\ lastCall.name = RequestSubdomain(req) \o <<".">> \o RequestDname(req)
            /\ \A rec \in lastCall.removed :
                  /\ rec.content = lastCall.value
                  /\ rec.subdomain \o <<".">> \o rec.dname = lastCall.name

\* a cleanup removed its own record while the record another run added
\* under the same name is still in the zone
C9_Witness ==
    /\ Called("del")
    /\ lastCall.removed # {}
    /\ \E rec \in zone :
          /\ rec.subdomain \o <<".">> \o rec.dname = lastCall.name
          /\ rec.content # lastCall.value
          /\ \E r1, r2 \in BagToSet(runs) :
                /\ r1.pc = "done" /\ r1.value = lastCall.value
                /\ r2.value = rec.content

\* the members of an add and of a remove payload
ExpectedMembers(op) ==
    {"subdomain", "domains", "output_content_type", "username", "password"}
        \cup (IF op = "add" THEN {"text"} ELSE {"record_type", "content"})

\* C10: whatever calls came before, a call's form parameters are exactly
\* input_format = 'json' and input_data, the payload holds the members of
\* its own operation only, with the call's name and value and the
\* credentials, and the client's options, username, password, cert and
\* key are as constructed.
C10_ParamsFreshPerCall ==
    lastCall.op # "none" =>
        LET req == PayloadOf(lastCall.data)
        IN  /\ DictKeys(lastCall.data) = {"input_format", "input_data"}
            /\ DictGet(lastCall.data, "input_format") = Str("json")
            /\ Len(req.v) = Cardinality(MemberNames(req))
            /\ MemberNames(req) = ExpectedMembers(lastCall.op)
            /\ JsonMember(req, IF Called("add") THEN "text" ELSE "content")
                    = JsonString(lastCall.value)
            /\ Called("del") => JsonMember(req, "record_type") = JsonString("TXT")
            /\ JsonMember(req, "output_content_type") = JsonString("json")
            /\ JsonMember(req, "username") = JsonString(credentials.username)
            /\ JsonMember(req, "password") = JsonString(credentials.password)
            /\ lastCall.name = RequestSubdomain(req) \o <<".">> \o RequestDname(req)
            /\ lastCall.self.options = << <<"input_format", Str("json")>> >>
            /\ lastCall.self.username = credentials.username
            /\ lastCall.self.password = credentials.password
            /\ lastCall.self.cert = credentials.cert
            /\ lastCall.self.key = credentials.key

\* a remove call made after every run's add call
C10_Witness ==
    /\ Called("del")
    /\ BagCardinality(runs) = NumRuns

====
